---- MODULE Spec2Model ----
(***************************************************************************)
(* A model of the dependency lifecycle resolution engine of eol-check:     *)
(* the file cache (utils/cache.py), the endoflife.date client              *)
(* (api/endoflife_client.py), the version helpers (utils/version.py) and   *)
(* the parallel check of a project's dependencies (core.py).               *)
(*                                                                         *)
(* Strings whose characters the code inspects (versions, cycles, package   *)
(* names, cache keys, file names) are sequences of one-character strings.  *)
(* A Python value that may be None is a sequence of length 0 or 1.         *)
(***************************************************************************)
EXTENDS Integers, Sequences, FiniteSets, TLC

VARIABLES
    threshold_days,           \* EOLChecker.threshold_days
    offline_mode,             \* EndOfLifeClient.offline_mode
    force_update,             \* EndOfLifeClient.force_update
    cache_ttl,                \* EndOfLifeClient.cache_ttl
    max_workers,              \* EOLChecker.max_workers: None or Some(n)
    cpu_count,                \* os.cpu_count()
    today,                    \* check_project: today = datetime.now().date()
    now,                      \* time.time(), in seconds
    files,                    \* the cache directory: file name -> content
    found,                    \* history: the cache directory as it was found
    available_products_cache, \* EndOfLifeClient.available_products_cache
    all_dependencies,         \* check_project: the dependency list
    task,                     \* the futures of check_dependency, one per dependency
    dep_results,              \* check_project: results in completion order
    results,                  \* check_project: the returned dictionary
    mainpc,                   \* position of check_project
    call,                     \* the last call made on the cache and what it returned
    written,                  \* history: per key, the last Cache.set if it wrote its file
    unit                      \* a pure function's arguments and its result

vars == <<threshold_days, offline_mode, force_update, cache_ttl, max_workers,
          cpu_count, today, now, files, found, available_products_cache, all_dependencies, task,
          dep_results, results, mainpc, call, written, unit>>

----------------------------------------------------------------------------
(* Python values *)

None == <<>>
Some(x) == <<x>>
IsNone(o) == Len(o) = 0

Digits == {"0", "1", "2", "3", "4", "5", "6", "7", "8", "9"}

DigitVal(c) ==
    CASE c = "0" -> 0 [] c = "1" -> 1 [] c = "2" -> 2 [] c = "3" -> 3
      [] c = "4" -> 4 [] c = "5" -> 5 [] c = "6" -> 6 [] c = "7" -> 7
      [] c = "8" -> 8 [] c = "9" -> 9

DigitChar(n) ==
    CASE n = 0 -> "0" [] n = 1 -> "1" [] n = 2 -> "2" [] n = 3 -> "3"
      [] n = 4 -> "4" [] n = 5 -> "5" [] n = 6 -> "6" [] n = 7 -> "7"
      [] n = 8 -> "8" [] n = 9 -> "9"

\* int(part) for a string of digits
RECURSIVE StrToInt(_)
StrToInt(s) ==
    IF s = <<>> THEN 0
    ELSE 10 * StrToInt(SubSeq(s, 1, Len(s) - 1)) + DigitVal(s[Len(s)])

\* str(part) for a non-negative integer
RECURSIVE IntToStr(_)
IntToStr(n) ==
    IF n < 10 THEN <<DigitChar(n)>>
    ELSE Append(IntToStr(n \div 10), DigitChar(n % 10))

\* str.startswith
startswith(s, prefix) ==
    /\ Len(prefix) <= Len(s)
    /\ SubSeq(s, 1, Len(prefix)) = prefix

\* str.endswith
endswith(s, suffix) ==
    /\ Len(suffix) <= Len(s)
    /\ SubSeq(s, Len(s) - Len(suffix) + 1, Len(s)) = suffix

\* s.split(".")[0]: the characters before the first dot
RECURSIVE split0(_)
split0(s) ==
    IF s = <<>> \/ s[1] = "." THEN <<>>
    ELSE <<s[1]>> \o split0(Tail(s))

\* s.replace(a, b) for single characters a and b
replace(s, a, b) == [i \in 1..Len(s) |-> IF s[i] = a THEN b ELSE s[i]]

\* sep.join(parts)
RECURSIVE join(_, _)
join(sep, parts) ==
    IF parts = <<>> THEN <<>>
    ELSE IF Len(parts) = 1 THEN parts[1]
    ELSE parts[1] \o sep \o join(sep, Tail(parts))

----------------------------------------------------------------------------
(* String literals of the source *)

s_react == <<"r", "e", "a", "c", "t">>
s_angular == <<"a", "n", "g", "u", "l", "a", "r">>
s_vue == <<"v", "u", "e">>
s_node == <<"n", "o", "d", "e">>
s_nodejs == <<"n", "o", "d", "e", "j", "s">>
s_django == <<"d", "j", "a", "n", "g", "o">>
s_python == <<"p", "y", "t", "h", "o", "n">>
s_spring == <<"s", "p", "r", "i", "n", "g">>
s_spring_boot == <<"s", "p", "r", "i", "n", "g", "-", "b", "o", "o", "t">>
s_java == <<"j", "a", "v", "a">>
s_spring_boot_starter_parent == <<"s", "p", "r", "i", "n", "g", "-", "b", "o", "o", "t", "-", "s", "t", "a", "r", "t", "e", "r", "-", "p", "a", "r", "e", "n", "t">>
s_eol_api_ == <<"e", "o", "l", "_", "a", "p", "i", "_">>
s_json == <<".", "j", "s", "o", "n">>

UpperCase == <<"A", "B", "C", "D", "E", "F", "G", "H", "I", "J", "K", "L", "M", "N", "O", "P", "Q", "R", "S", "T", "U", "V", "W", "X", "Y", "Z">>
LowerCase == <<"a", "b", "c", "d", "e", "f", "g", "h", "i", "j", "k", "l", "m", "n", "o", "p", "q", "r", "s", "t", "u", "v", "w", "x", "y", "z">>

lower_char(c) ==
    IF \E i \in 1..Len(UpperCase) : UpperCase[i] = c
    THEN LowerCase[CHOOSE i \in 1..Len(UpperCase) : UpperCase[i] = c]
    ELSE c

\* str.lower
lower(s) == [i \in 1..Len(s) |-> lower_char(s[i])]

----------------------------------------------------------------------------
(* api/endoflife_client.py: the static tables and the pure helpers *)

\* 24 * 60 * 60
DEFAULT_CACHE_TTL == 86400

product_mapping_keys ==
    {s_react, s_angular, s_vue, s_node, s_nodejs, s_django, s_python, s_spring, s_spring_boot, s_java, s_spring_boot_starter_parent}

product_mapping(k) ==
    CASE k = s_react -> s_react
      [] k = s_angular -> s_angular
      [] k = s_vue -> s_vue
      [] k = s_node -> s_nodejs
      [] k = s_nodejs -> s_nodejs
      [] k = s_django -> s_django
      [] k = s_python -> s_python
      [] k = s_spring -> s_spring
      [] k = s_spring_boot -> s_spring_boot
      [] k = s_java -> s_java
      [] k = s_spring_boot_starter_parent -> s_spring_boot

\* _get_product_name without the second look-up (lines 142-145)
_get_product_name_one_lookup(package_name) ==
    LET package_name_lower == lower(package_name)
    IN  IF package_name_lower \in product_mapping_keys
        THEN product_mapping(package_name_lower)
        ELSE package_name_lower

_get_product_name(package_name) ==
    LET package_name_lower == lower(package_name)
        normalized_name == replace(package_name_lower, "_", "-")
    IN  IF package_name_lower \in product_mapping_keys
        THEN product_mapping(package_name_lower)
        ELSE IF normalized_name \in product_mapping_keys
        THEN product_mapping(normalized_name)
        ELSE package_name_lower

\* _get_with_cache: the cache key of an endpoint
cache_key(endpoint) ==
    LET clean_endpoint == IF endswith(endpoint, s_json)
                          THEN SubSeq(endpoint, 1, Len(endpoint) - 5)
                          ELSE endpoint
    IN  s_eol_api_ \o clean_endpoint

----------------------------------------------------------------------------
(* utils/cache.py.  A file of the cache directory holds either text that   *)
(* json.load rejects, [text |-> ...], or a JSON object, [json |-> d],      *)
(* where d is a record with the keys the object has.                       *)

\* the file name under cache_dir
_get_cache_path(key) ==
    LET filename == replace(replace(key, "/", "_"), ":", "_")
        stem == IF endswith(filename, s_json)
                THEN SubSeq(filename, 1, Len(filename) - 5)
                ELSE filename
    IN  stem \o s_json

Torn == [text |-> "partial"]
Entry(value, expires_at) == [json |-> [value |-> value, expires_at |-> expires_at]]

\* Cache.get with the expiry test written expires_at <= time.time()
Cache_get_expired_at_deadline(d, key, t) ==
    LET cache_path == _get_cache_path(key)
    IN  IF cache_path \notin DOMAIN d THEN None
        ELSE IF "json" \notin DOMAIN d[cache_path] THEN None
        ELSE LET cache_data == d[cache_path].json
             IN  IF "expires_at" \in DOMAIN cache_data /\ cache_data.expires_at <= t
                 THEN None
                 ELSE IF "expires_at" \notin DOMAIN cache_data THEN None
                 ELSE IF "value" \notin DOMAIN cache_data THEN None
                 ELSE Some(cache_data.value)

\* Cache.get on a directory state d at time t: Some(value) or None
Cache_get(d, key, t) ==
    LET cache_path == _get_cache_path(key)
    IN  IF cache_path \notin DOMAIN d THEN None
        ELSE IF "json" \notin DOMAIN d[cache_path] THEN None
        ELSE LET cache_data == d[cache_path].json
             IN  IF "expires_at" \in DOMAIN cache_data /\ cache_data.expires_at < t
                 THEN None
                 ELSE IF "expires_at" \notin DOMAIN cache_data THEN None
                 ELSE IF "value" \notin DOMAIN cache_data THEN None
                 ELSE Some(cache_data.value)

\* a directory with file f holding c
Put(d, f, c) == [g \in DOMAIN d \cup {f} |-> IF g = f THEN c ELSE d[g]]

\* open(cache_path, "w"): the file exists and is empty
Cache_set_open(d, key) == Put(d, _get_cache_path(key), Torn)

\* json.dump(cache_data, f) and the close of the file
Cache_set_dump(d, key, value, ttl, t) ==
    Put(d, _get_cache_path(key), Entry(value, t + ttl))

\* Cache.set as a whole; outcome is what the file system did:
\* "ok", "open_failed" (nothing written) or "dump_failed" (a partial file)
Cache_set(d, key, value, ttl, t, outcome) ==
    CASE outcome = "ok" -> Cache_set_dump(Cache_set_open(d, key), key, value, ttl, t)
      [] outcome = "open_failed" -> d
      [] outcome = "dump_failed" -> Cache_set_open(d, key)

\* Cache.clear giving up at a removal that fails: with the first file
\* listed among those that cannot be removed, nothing is removed
Cache_clear_stopping(d, kept) ==
    IF DOMAIN d \cap kept = {} THEN <<>> ELSE d

\* Cache.clear: every file is removed but those of kept, whose removal failed
Cache_clear(d, kept) == [g \in DOMAIN d \cap kept |-> d[g]]

----------------------------------------------------------------------------
(* utils/version.py *)

\* re.findall(r'\d+', s): the maximal runs of digits, left to right
RECURSIVE findall_digits(_, _)
findall_digits(s, run) ==
    IF s = <<>> THEN (IF run = <<>> THEN <<>> ELSE <<run>>)
    ELSE IF s[1] \in Digits THEN findall_digits(Tail(s), Append(run, s[1]))
    ELSE (IF run = <<>> THEN <<>> ELSE <<run>>) \o findall_digits(Tail(s), <<>>)

parse_version(version_str) ==
    LET parts == findall_digits(version_str, <<>>)
    IN  [i \in 1..Len(parts) |-> StrToInt(parts[i])]

\* re.sub(r'^v', '', s)
strip_v(version_str) ==
    IF version_str # <<>> /\ version_str[1] = "v" THEN Tail(version_str)
    ELSE version_str

normalize_version(version_str) ==
    LET parts == parse_version(strip_v(version_str))
    IN  join(<<".">>, [i \in 1..Len(parts) |-> IntToStr(parts[i])])

has_major_version_change(current_version, recommended_version) ==
    IF current_version = <<>> \/ recommended_version = <<>> THEN FALSE
    ELSE LET current_parts == parse_version(current_version)
             recommended_parts == parse_version(recommended_version)
         IN  IF current_parts = <<>> \/ recommended_parts = <<>> THEN FALSE
             ELSE current_parts[1] # recommended_parts[1]

----------------------------------------------------------------------------
(* api/endoflife_client.py: get_eol_info's search of the fetched list.     *)
(* A release cycle is a record with the keys the JSON object has; "eol"    *)
(* is [date |-> d] for a "YYYY-MM-DD" string, [bool |-> b] for true or     *)
(* false, [text |-> s] for any other string.                               *)

exact_match(normalized_version, ver_info) ==
    /\ "cycle" \in DOMAIN ver_info
    /\ startswith(normalized_version, ver_info.cycle)

closest_match(normalized_version, ver_info) ==
    /\ "cycle" \in DOMAIN ver_info
    /\ split0(normalized_version) = split0(ver_info.cycle)

\* the first loop: the first ver_info whose cycle the version starts with
RECURSIVE first_exact(_, _)
first_exact(versions, normalized_version) ==
    IF versions = <<>> THEN None
    ELSE IF exact_match(normalized_version, versions[1]) THEN Some(versions[1])
    ELSE first_exact(Tail(versions), normalized_version)

\* the second loop: the first ver_info with the version's major number
RECURSIVE first_closest(_, _)
first_closest(versions, normalized_version) ==
    IF versions = <<>> THEN None
    ELSE IF closest_match(normalized_version, versions[1]) THEN Some(versions[1])
    ELSE first_closest(Tail(versions), normalized_version)

\* the two loops tried in the other order
find_eol_info_closest_first(versions, version) ==
    LET normalized_version == normalize_version(version)
    IN  IF first_closest(versions, normalized_version) # None
        THEN first_closest(versions, normalized_version)
        ELSE first_exact(versions, normalized_version)

\* the two loops of get_eol_info: Some(ver_info) or None
find_eol_info(versions, version) ==
    LET normalized_version == normalize_version(version)
    IN  IF first_exact(versions, normalized_version) # None
        THEN first_exact(versions, normalized_version)
        ELSE first_closest(versions, normalized_version)

----------------------------------------------------------------------------
(* core.py: check_dependency, as a function of what the client returns *)

\* calendar dates, as datetime.date holds them
Date(y, m, d) == [y |-> y, m |-> m, d |-> d]

IsLeap(y) == (y % 4 = 0) /\ ((y % 100 # 0) \/ (y % 400 = 0))

DaysBeforeMonth(y, m) ==
    <<0, 31, 59, 90, 120, 151, 181, 212, 243, 273, 304, 334>>[m]
    + (IF m > 2 /\ IsLeap(y) THEN 1 ELSE 0)

\* date.toordinal(): the days since 0001-01-01, plus one
toordinal(date) ==
    LET y == date.y - 1
    IN  y * 365 + (y \div 4) - (y \div 100) + (y \div 400)
        + DaysBeforeMonth(date.y, date.m) + date.d

\* (eol_date - today).days
days_between(eol_date, today_) == toordinal(eol_date) - toordinal(today_)

\* datetime.strptime(eol, "%Y-%m-%d") returns a date for a date string and
\* raises for anything else
strptime_ok(eol) == "date" \in DOMAIN eol

strptime_error(eol) ==
    IF "bool" \in DOMAIN eol
    THEN "strptime() argument 1 must be str, not bool"
    ELSE "time data does not match format '%Y-%m-%d'"

\* lines 170-178 with CRITICAL given to an EOL date that is today
status_of_days_today_critical(days_remaining, threshold) ==
    IF days_remaining <= 0 THEN "CRITICAL"
    ELSE IF days_remaining < threshold THEN "WARNING"
    ELSE "OK"

\* lines 170-178
status_of_days(days_remaining, threshold) ==
    IF days_remaining < 0 THEN "CRITICAL"
    ELSE IF days_remaining < threshold THEN "WARNING"
    ELSE "OK"

summary_key_of(status) ==
    CASE status = "CRITICAL" -> "critical"
      [] status = "WARNING" -> "warning"
      [] status = "OK" -> "ok"

\* dict.get(key): Some(value) or None
get(dict, key) == IF key \in DOMAIN dict THEN Some(dict[key]) ELSE None

\* lines 159-165
unknown_result(dep) ==
    <<[name |-> dep.name, version |-> dep.version, status |-> "UNKNOWN",
       eol_date |-> None, days_remaining |-> None, recommended_version |-> None],
      "unknown">>

\* lines 222-226
error_result(dep, e) ==
    <<[name |-> dep.name, version |-> dep.version, status |-> "ERROR", error |-> e],
      "unknown">>

\* line 157
no_eol_info(eol_info) == eol_info = None \/ "eol" \notin DOMAIN eol_info[1]

\* lines 191-193 with the date test written >= today
is_active_until_today(v, today_) ==
    /\ "eol" \in DOMAIN v
    /\ \/ "bool" \in DOMAIN v.eol /\ v.eol.bool = FALSE
       \/ "date" \in DOMAIN v.eol /\ toordinal(v.eol.date) >= toordinal(today_)

\* lines 191-193, the test of one element of all_versions
is_active(v, today_) ==
    /\ "eol" \in DOMAIN v
    /\ \/ "bool" \in DOMAIN v.eol /\ v.eol.bool = FALSE
       \/ "date" \in DOMAIN v.eol /\ toordinal(v.eol.date) > toordinal(today_)

\* lines 191-193 raise when strptime meets a string that is no date
active_versions_raises(all_versions) ==
    \E i \in 1..Len(all_versions) :
        /\ "eol" \in DOMAIN all_versions[i]
        /\ "text" \in DOMAIN all_versions[i].eol

\* lines 181-209: [recommended_version, has_breaking_changes]; all_versions is
\* None when get_product_versions raised
recommendation(dep, eol_info, all_versions, today_) ==
    IF all_versions = None \/ active_versions_raises(all_versions[1])
    THEN [recommended_version |-> None, has_breaking_changes |-> FALSE]
    ELSE LET Active(v) == is_active(v, today_)
             active_versions == SelectSeq(all_versions[1], Active)
         IN  IF active_versions # <<>>
             THEN LET recommended_version == get(active_versions[1], "latest")
                  IN  [recommended_version |-> recommended_version,
                       has_breaking_changes |->
                           /\ recommended_version # None
                           /\ recommended_version[1] # <<>>
                           /\ has_major_version_change(dep.version, recommended_version[1])]
             ELSE [recommended_version |-> get(eol_info[1], "latest"),
                   has_breaking_changes |-> FALSE]

\* line 184 and 187: whether check_dependency goes on to get_product_versions
wants_recommendation(dep, eol_info, today_, threshold) ==
    /\ ~no_eol_info(eol_info)
    /\ strptime_ok(eol_info[1].eol)
    /\ status_of_days(days_between(eol_info[1].eol.date, today_), threshold)
           \in {"CRITICAL", "WARNING"}
    /\ _get_product_name(dep.name) # <<>>

\* lines 154-226 after get_eol_info has returned eol_info: the pair
\* (dependency result, summary key)
check_dependency(dep, eol_info, all_versions, today_, threshold) ==
    IF no_eol_info(eol_info) THEN unknown_result(dep)
    ELSE IF ~strptime_ok(eol_info[1].eol)
    THEN error_result(dep, strptime_error(eol_info[1].eol))
    ELSE LET days_remaining == days_between(eol_info[1].eol.date, today_)
             status == status_of_days(days_remaining, threshold)
             rec == IF wants_recommendation(dep, eol_info, today_, threshold)
                    THEN recommendation(dep, eol_info, all_versions, today_)
                    ELSE [recommended_version |-> None, has_breaking_changes |-> FALSE]
         IN  <<[name |-> dep.name, version |-> dep.version, status |-> status,
                eol_date |-> Some(eol_info[1].eol.date),
                days_remaining |-> Some(days_remaining),
                recommended_version |-> rec.recommended_version,
                has_breaking_changes |-> rec.has_breaking_changes],
               summary_key_of(status)>>

----------------------------------------------------------------------------
(* Variable groups and the values of the variables a specification leaves  *)
(* unused.                                                                 *)

configVars == <<threshold_days, offline_mode, force_update, cache_ttl, max_workers,
                cpu_count, today, found>>
runVars == <<available_products_cache, all_dependencies, task, dep_results, results, mainpc>>

NoCall == [op |-> "none", n |-> 0]
NoResults == [dependencies |-> <<>>,
              summary |-> [critical |-> 0, warning |-> 0, ok |-> 0, unknown |-> 0]]

NoRun ==
    /\ threshold_days = 90
    /\ offline_mode = FALSE
    /\ force_update = FALSE
    /\ cache_ttl = DEFAULT_CACHE_TTL
    /\ max_workers = None
    /\ cpu_count = 1
    /\ today = Date(2024, 1, 1)
    /\ available_products_cache = <<>>
    /\ all_dependencies = <<>>
    /\ task = <<>>
    /\ dep_results = <<>>
    /\ results = NoResults
    /\ mainpc = "idle"

----------------------------------------------------------------------------
(* The cache on its own: calls of Cache.set, Cache.get and Cache.clear by  *)
(* one thread, while the clock advances.                                   *)

MaxClock == 3
MaxCalls == 3

k_slash == <<"a", "/", "b">>
k_colon == <<"a", ":", "b">>
k_plain == <<"c">>
CacheKeys == {k_slash, k_colon, k_plain}

\* JSON values to store: lists of release cycles
v_one == <<[cycle |-> <<"1">>]>>
v_two == <<[cycle |-> <<"2">>]>>
CacheValues == {v_one, v_two}
Ttls == {1, 2}
SetOutcomes == {"ok", "open_failed", "dump_failed"}

\* what a cache file left by an earlier run or another program may hold
FoundContents ==
    {Torn, [json |-> [value |-> v_one]], [json |-> [expires_at |-> 2]],
     Entry(v_one, 0), Entry(v_two, 1)}

FoundDirs ==
    {<<>>} \cup
    {Put(<<>>, _get_cache_path(k), c) : k \in {k_slash, k_plain}, c \in FoundContents}

\* the content of key's file, if there is one
Stored(d, key) ==
    IF _get_cache_path(key) \in DOMAIN d THEN Some(d[_get_cache_path(key)]) ELSE None

InitCache ==
    /\ NoRun
    /\ now = 0
    /\ files \in FoundDirs
    /\ found = files
    /\ call = NoCall
    /\ written = [k \in CacheKeys |-> None]
    /\ unit = <<>>

CacheSet(key, value, ttl, outcome) ==
    /\ call.n < MaxCalls
    /\ files' = Cache_set(files, key, value, ttl, now, outcome)
    /\ call' = [op |-> "set", key |-> key, n |-> call.n + 1]
    /\ written' = [written EXCEPT ![key] =
                      IF outcome = "ok"
                      THEN Some([value |-> value, until |-> now + ttl])
                      ELSE None]
    /\ UNCHANGED <<configVars, runVars, now, unit>>

\* Cache.get removing the file of an entry it finds expired or unreadable
CacheGet_evicting(key) ==
    /\ call.n < MaxCalls
    /\ call' = [op |-> "get", key |-> key, at |-> now, n |-> call.n + 1,
                ret |-> Cache_get(files, key, now), seen |-> Stored(files, key)]
    /\ files' = IF Cache_get(files, key, now) = None
                THEN Cache_clear(files, DOMAIN files \ {_get_cache_path(key)})
                ELSE files
    /\ UNCHANGED <<configVars, runVars, now, written, unit>>

CacheGet(key) ==
    /\ call.n < MaxCalls
    /\ call' = [op |-> "get", key |-> key, at |-> now, n |-> call.n + 1,
                ret |-> Cache_get(files, key, now), seen |-> Stored(files, key)]
    /\ UNCHANGED <<configVars, runVars, now, files, written, unit>>

CacheClear(kept) ==
    /\ call.n < MaxCalls
    /\ files' = Cache_clear(files, kept)
    /\ call' = [op |-> "clear", n |-> call.n + 1, kept |-> kept, listed |-> DOMAIN files]
    /\ written' = [k \in CacheKeys |-> None]
    /\ UNCHANGED <<configVars, runVars, now, unit>>

Tick ==
    /\ now < MaxClock
    /\ now' = now + 1
    /\ UNCHANGED <<configVars, runVars, files, call, written, unit>>

NextCache ==
    \/ \E key \in CacheKeys, value \in CacheValues, ttl \in Ttls, outcome \in SetOutcomes :
          CacheSet(key, value, ttl, outcome)
    \/ \E key \in CacheKeys : CacheGet(key)
    \/ \E kept \in SUBSET DOMAIN files : CacheClear(kept)
    \/ Tick

SpecCache == InitCache /\ [][NextCache]_vars

----------------------------------------------------------------------------
(* Claims about the cache, checked under SpecCache *)

\* a file that json.load accepts and that has both keys of an entry
WellFormed(c) ==
    /\ "json" \in DOMAIN c
    /\ "value" \in DOMAIN c.json
    /\ "expires_at" \in DOMAIN c.json

\* C9: set(k, v, ttl) followed by get(k), with no other set of k in between,
\* returns v before ttl seconds have elapsed and miss once the clock is past
\* ttl seconds after the set.
C9_SetThenGet ==
    (call.op = "get" /\ written[call.key] # None) =>
        LET w == written[call.key][1]
        IN  /\ call.at < w.until => call.ret = Some(w.value)
            /\ call.at > w.until => call.ret = None

\* C10 as stated: get(k) returns the stored value iff k's file exists, is
\* well formed and its expires_at is strictly greater than the current time.
C10_HitIffExpiresAfterNow ==
    call.op = "get" =>
        call.ret = IF /\ call.seen # None
                      /\ WellFormed(call.seen[1])
                      /\ call.seen[1].json.expires_at > call.at
                   THEN Some(call.seen[1].json.value)
                   ELSE None

\* C10 amended: get(k) returns the stored value iff k's file exists, is well
\* formed and its expires_at is not less than the current time; an entry
\* whose expires_at equals the current time is still a hit.
C10_HitIffNotExpired ==
    call.op = "get" =>
        call.ret = IF /\ call.seen # None
                      /\ WellFormed(call.seen[1])
                      /\ call.seen[1].json.expires_at >= call.at
                   THEN Some(call.seen[1].json.value)
                   ELSE None

\* a get at the very second its entry expires, which is a hit
C10_Witness ==
    /\ call.op = "get"
    /\ call.seen # None
    /\ WellFormed(call.seen[1])
    /\ call.seen[1].json.expires_at = call.at
    /\ call.ret = Some(call.seen[1].json.value)

----------------------------------------------------------------------------
(* The pure functions on their own: arguments drawn from small sets, one   *)
(* action per function.                                                    *)

ver_3_2_1 == <<"3", ".", "2", ".", "1">>
ver_v3_2_1 == <<"v", "3", ".", "2", ".", "1">>
ver_2_7_18 == <<"2", ".", "7", ".", "1", "8">>
ver_10_2_3 == <<"1", "0", ".", "2", ".", "3">>
ver_rc == <<"v", "2", ".", "7", ".", "1", "6", "r", "c", "1">>
ver_beta == <<"1", ".", "0", "-", "b", "e", "t", "a">>
ver_4_2 == <<"4", ".", "2">>
ver_latest == <<"l", "a", "t", "e", "s", "t">>
ver_3 == <<"3">>
ver_5_0 == <<"5", ".", "0">>
ver_2_0 == <<"2", ".", "0">>
ver_empty == <<>>
VersionPool ==
    {ver_3_2_1, ver_v3_2_1, ver_2_7_18, ver_10_2_3, ver_rc, ver_beta,
     ver_4_2, ver_latest, ver_3, ver_5_0, ver_2_0, ver_empty}

MaxCycles == 2

EolDate(y, m, d) == [date |-> Date(y, m, d)]
EolBool(b) == [bool |-> b]
EolText == [text |-> "TBD"]

Cycle(c, e, l) == [cycle |-> c, eol |-> e, latest |-> l]

cy_10 == Cycle(<<"1", "0">>, EolDate(2024, 3, 31), <<"1", "0", ".", "4">>)
cy_4_2 == Cycle(<<"4", ".", "2">>, EolBool(FALSE), <<"4", ".", "2", ".", "9">>)
cy_3_2 == Cycle(<<"3", ".", "2">>, EolDate(2023, 12, 1), <<"3", ".", "2", ".", "2", "5">>)
cy_3_1 == Cycle(<<"3", ".", "1">>, EolBool(TRUE), <<"3", ".", "1", ".", "1", "4">>)
cy_3 == Cycle(<<"3">>, EolDate(2025, 1, 1), <<"3", ".", "9">>)
cy_2_7 == Cycle(<<"2", ".", "7">>, EolDate(2024, 2, 1), <<"2", ".", "7", ".", "1", "8">>)
cy_1 == Cycle(<<"1">>, EolDate(2024, 1, 1), <<"1", ".", "9">>)
cy_5 == Cycle(<<"5">>, EolText, <<"5", ".", "0">>)
cy_2 == [cycle |-> <<"2">>, latest |-> <<"2", ".", "0">>]
cy_none == [eol |-> EolBool(FALSE), latest |-> <<"9", ".", "9">>]

CyclePool ==
    {cy_10, cy_4_2, cy_3_2, cy_3_1, cy_3, cy_2_7,
     cy_1, cy_5, cy_2, cy_none}

Thresholds == {0, 31, 90}
Todays == {Date(2024, 1, 1)}
s_Node == <<"N", "o", "d", "e">>
s_Spring_Boot == <<"S", "p", "r", "i", "n", "g", "_", "B", "o", "o", "t">>
s_spring_boot_starter_parent_u ==
    <<"s", "p", "r", "i", "n", "g", "_", "b", "o", "o", "t", "_",
      "s", "t", "a", "r", "t", "e", "r", "_", "p", "a", "r", "e", "n", "t">>
s_My_Lib == <<"M", "y", "_", "L", "i", "b">>
PackageNames == {s_django, s_Node, s_Spring_Boot, s_spring_boot_starter_parent_u, s_My_Lib}

\* the sequences over S of length at most n
RECURSIVE SeqsUpTo(_, _)
SeqsUpTo(S, n) ==
    IF n = 0 THEN {<<>>}
    ELSE LET shorter == SeqsUpTo(S, n - 1)
         IN  shorter \cup {Append(q, x) : q \in shorter, x \in S}

InitUnit ==
    /\ NoRun
    /\ now = 0
    /\ files = <<>>
    /\ found = <<>>
    /\ call = NoCall
    /\ written = <<>>
    /\ \E name \in PackageNames, version \in VersionPool,
          versions \in SeqsUpTo(CyclePool, MaxCycles),
          threshold \in Thresholds, today_ \in Todays :
          unit = [fn |-> "args", name |-> name, version |-> version,
                  versions |-> versions, threshold |-> threshold, today |-> today_]

NormalizeVersion ==
    /\ unit.fn = "args"
    /\ unit' = [fn |-> "normalize_version", version |-> unit.version,
                out |-> normalize_version(unit.version)]
    /\ UNCHANGED <<configVars, runVars, now, files, call, written>>

FindEolInfo ==
    /\ unit.fn = "args"
    /\ unit' = [fn |-> "get_eol_info", version |-> unit.version,
                versions |-> unit.versions,
                out |-> find_eol_info(unit.versions, unit.version)]
    /\ UNCHANGED <<configVars, runVars, now, files, call, written>>

\* check_dependency where the client has fetched unit.versions for the product
CheckDependency ==
    /\ unit.fn = "args"
    /\ LET dep == [name |-> unit.name, version |-> unit.version]
           eol_info == find_eol_info(unit.versions, unit.version)
       IN  unit' = [fn |-> "check_dependency", dep |-> dep,
                    versions |-> unit.versions, eol_info |-> eol_info,
                    threshold |-> unit.threshold, today |-> unit.today,
                    out |-> check_dependency(dep, eol_info, Some(unit.versions),
                                             unit.today, unit.threshold)]
    /\ UNCHANGED <<configVars, runVars, now, files, call, written>>

GetProductName ==
    /\ unit.fn = "args"
    /\ unit' = [fn |-> "_get_product_name", package_name |-> unit.name,
                out |-> _get_product_name(unit.name)]
    /\ UNCHANGED <<configVars, runVars, now, files, call, written>>

NextUnit ==
    \/ GetProductName
    \/ NormalizeVersion
    \/ FindEolInfo
    \/ CheckDependency

SpecUnit == InitUnit /\ [][NextUnit]_vars

----------------------------------------------------------------------------
(* Claims about the pure functions, checked under SpecUnit *)

\* the positions of versions whose cycle is a prefix of the normalized version
PrefixAt(versions, nv) ==
    {i \in 1..Len(versions) : /\ "cycle" \in DOMAIN versions[i]
                              /\ Len(versions[i].cycle) <= Len(nv)
                              /\ \A j \in 1..Len(versions[i].cycle) :
                                    versions[i].cycle[j] = nv[j]}

\* the characters of s before its first dot
Leading(s) ==
    LET dots == {i \in 1..Len(s) : s[i] = "."}
    IN  IF dots = {} THEN s
        ELSE SubSeq(s, 1, (CHOOSE i \in dots : \A j \in dots : i <= j) - 1)

\* the positions of versions whose leading component is that of the normalized version
MajorAt(versions, nv) ==
    {i \in 1..Len(versions) : /\ "cycle" \in DOMAIN versions[i]
                              /\ Leading(versions[i].cycle) = Leading(nv)}

Least(S) == CHOOSE i \in S : \A j \in S : i <= j

\* C7: resolve returns the first cycle in catalog order whose cycle string is
\* a prefix of the normalized version if there is one; otherwise the first
\* cycle whose leading dot-separated component equals that of the normalized
\* version; otherwise none.
C7_MatchPrecedence ==
    unit.fn = "get_eol_info" =>
        LET nv == normalize_version(unit.version)
            p1 == PrefixAt(unit.versions, nv)
            p2 == MajorAt(unit.versions, nv)
        IN  unit.out = IF p1 # {} THEN Some(unit.versions[Least(p1)])
                       ELSE IF p2 # {} THEN Some(unit.versions[Least(p2)])
                       ELSE None

\* a prefix match found behind a cycle that matches by its major version only
C7_Witness ==
    /\ unit.fn = "get_eol_info"
    /\ LET nv == normalize_version(unit.version)
           p1 == PrefixAt(unit.versions, nv)
           p2 == MajorAt(unit.versions, nv)
       IN  /\ p1 # {}
           /\ p2 # {}
           /\ Least(p2) < Least(p1)
           /\ unit.out = Some(unit.versions[Least(p1)])

\* the longest prefix of s made of digits
RECURSIVE TakeDigits(_)
TakeDigits(s) ==
    IF s = <<>> \/ s[1] \notin Digits THEN <<>>
    ELSE <<s[1]>> \o TakeDigits(Tail(s))

\* the leading run of dot-separated integer components of s
RECURSIVE LeadingRun(_)
LeadingRun(s) ==
    LET d == TakeDigits(s)
        rest == SubSeq(s, Len(d) + 1, Len(s))
    IN  IF d = <<>> THEN <<>>
        ELSE IF Len(rest) >= 2 /\ rest[1] = "." /\ rest[2] \in Digits
        THEN <<d>> \o LeadingRun(Tail(rest))
        ELSE <<d>>

\* C8: normalization strips a leading v and keeps only the leading run of
\* dot-separated integer components, dropping everything from the first
\* non-numeric suffix onward.
C8_KeepsLeadingRun ==
    unit.fn = "normalize_version" =>
        LET run == LeadingRun(strip_v(unit.version))
        IN  unit.out = join(<<".">>, [i \in 1..Len(run) |-> IntToStr(StrToInt(run[i]))])

\* the days from 2024-01-01 to the EOL dates of CyclePool, counted by hand
DaysFrom2024(date) ==
    CASE date = Date(2023, 12, 1) -> -31
      [] date = Date(2024, 1, 1) -> 0
      [] date = Date(2024, 2, 1) -> 31
      [] date = Date(2024, 3, 31) -> 90
      [] date = Date(2025, 1, 1) -> 366

\* the dependency was matched to a cycle whose eol is a date
HasEolDate(eol_info) ==
    /\ eol_info # None
    /\ "eol" \in DOMAIN eol_info[1]
    /\ "date" \in DOMAIN eol_info[1].eol

\* C1: with a concrete EOL date E and daysRemaining = E - today, the status is
\* CRITICAL iff daysRemaining < 0, WARNING iff 0 <= daysRemaining < thresholdDays
\* and OK iff daysRemaining >= thresholdDays.
C1_StatusByDaysRemaining ==
    (unit.fn = "check_dependency" /\ HasEolDate(unit.eol_info)) =>
        LET r == unit.out[1]
            d == DaysFrom2024(unit.eol_info[1].eol.date)
        IN  /\ unit.today = Date(2024, 1, 1)
            /\ r.status \in {"CRITICAL", "WARNING", "OK"}
            /\ r.days_remaining = Some(d)
            /\ r.status = "CRITICAL" <=> d < 0
            /\ r.status = "WARNING" <=> (0 <= d /\ d < unit.threshold)
            /\ r.status = "OK" <=> d >= unit.threshold
            /\ unit.out[2] = summary_key_of(r.status)

\* an EOL date that is today, with a positive threshold: WARNING
C1_Witness ==
    /\ unit.fn = "check_dependency"
    /\ HasEolDate(unit.eol_info)
    /\ unit.eol_info[1].eol.date = unit.today
    /\ unit.threshold > 0
    /\ unit.out[1].status = "WARNING"
    /\ unit.out[1].days_remaining = Some(0)

\* C2: when the matched cycle's eol is false or true, or the cycle has no
\* eol, or no cycle was matched, the status is UNKNOWN with eolDate and
\* daysRemaining null, never ERROR.
C2_NoDateIsUnknown ==
    (/\ unit.fn = "check_dependency"
     /\ \/ unit.eol_info = None
        \/ "eol" \notin DOMAIN unit.eol_info[1]
        \/ "bool" \in DOMAIN unit.eol_info[1].eol) =>
        /\ unit.out[1].status = "UNKNOWN"
        /\ unit.out[1].eol_date = None
        /\ unit.out[1].days_remaining = None

----------------------------------------------------------------------------
(* check_project: the dependencies are checked by the threads of a         *)
(* RequestPool while the main thread collects the results.  The clock      *)
(* stands still during the run and the catalog answers the same way every  *)
(* time it is asked.  A step of a task is one access to what the threads   *)
(* share: the availability dictionary, a cache file, the network.          *)

MaxDeps == 2

s_left_pad == <<"l", "e", "f", "t", "_", "p", "a", "d">>
s_Django == <<"D", "j", "a", "n", "g", "o">>

\* what endoflife.date holds
api_django == <<cy_4_2, cy_3_2, cy_3, cy_2_7>>
api_nodejs == <<cy_10, cy_1>>

\* _fetch_from_api: Some(response.json()), or None when raise_for_status
\* raises; the answer for vue is a list with no release cycle in it
_fetch_from_api(endpoint) ==
    CASE endpoint = s_django -> Some(api_django)
      [] endpoint = s_nodejs -> Some(api_nodejs)
      [] endpoint = s_vue -> Some(<<>>)
      [] OTHER -> None

Dependency(name, version) == [name |-> name, version |-> version]

DepPool ==
    {Dependency(s_django, ver_3_2_1), Dependency(s_Django, ver_4_2),
     Dependency(s_django, ver_2_7_18), Dependency(s_node, ver_10_2_3),
     Dependency(s_left_pad, ver_3)}

\* a list fetched when 3.2 was still supported
old_django == <<Cycle(<<"3", ".", "2">>, EolDate(2025, 1, 1), <<"3", ".", "2", ".", "1">>), cy_2_7>>

FileOf(product) == _get_cache_path(cache_key(product))

\* the cache directory before the run, the clock being at 100
FoundCaches ==
    {<<>>,
     Put(<<>>, FileOf(s_django), Entry(old_django, 101)),
     Put(Put(<<>>, FileOf(s_django), Entry(old_django, 100)),
         FileOf(s_nodejs), Entry(api_nodejs, 99)),
     Put(Put(Put(<<>>, FileOf(s_django), Torn),
             FileOf(s_nodejs), Entry(<<>>, 101)),
         FileOf(s_left_pad), Entry(<<cy_3>>, 101))}

WorkerCounts == {None, Some(-1), Some(0), Some(1), Some(2)}
CpuCounts == {1}
WriteOutcomes == {"ok", "failed"}

Queued == [pc |-> "queued", phase |-> "-", avail |-> FALSE, eol_info |-> None, out |-> None]
Done(pair) == [pc |-> "done", phase |-> "-", avail |-> FALSE, eol_info |-> None, out |-> Some(pair)]

Init ==
    /\ threshold_days \in Thresholds
    /\ offline_mode \in BOOLEAN
    /\ force_update \in BOOLEAN
    /\ cache_ttl = DEFAULT_CACHE_TTL
    /\ max_workers \in WorkerCounts
    /\ cpu_count \in CpuCounts
    /\ today \in Todays
    /\ now = 100
    /\ files \in FoundCaches
    /\ found = files
    /\ available_products_cache = <<>>
    /\ all_dependencies \in SeqsUpTo(DepPool, MaxDeps)
    /\ task = [i \in 1..Len(all_dependencies) |-> Queued]
    /\ dep_results = <<>>
    /\ results = NoResults
    /\ mainpc = "pool"
    /\ call = NoCall
    /\ written = <<>>
    /\ unit = <<>>

Product(i) == _get_product_name(all_dependencies[i].name)

\* lines 105-116 with the test of offline_mode skipped under force_update
enter_pc_force_first ==
    IF ~force_update THEN "cache_get" ELSE "fetch"

\* where _get_with_cache first touches shared state: the cache read, the
\* network, or nowhere when it raises at once (lines 105-116)
enter_pc ==
    IF ~force_update THEN "cache_get"
    ELSE IF offline_mode THEN "raise"
    ELSE "fetch"

\* check_dependency once get_product_versions has returned r (lines 189-218)
after_recommend(i, t, r) ==
    Done(check_dependency(all_dependencies[i], t.eol_info, r, today, threshold_days))

enter_recommend(i, t) ==
    IF enter_pc = "raise" THEN after_recommend(i, t, None)
    ELSE [t EXCEPT !.pc = enter_pc, !.phase = "recommend"]

\* get_eol_info once get_product_versions has returned r (lines 203-234),
\* and check_dependency up to its own call of get_product_versions
after_versions(i, t, r) ==
    LET dep == all_dependencies[i]
        eol_info == IF r = None THEN None ELSE find_eol_info(r[1], dep.version)
    IN  IF wants_recommendation(dep, eol_info, today, threshold_days)
        THEN enter_recommend(i, [t EXCEPT !.eol_info = eol_info])
        ELSE Done(check_dependency(dep, eol_info, None, today, threshold_days))

enter_versions(i, t) ==
    IF enter_pc = "raise" THEN after_versions(i, t, None)
    ELSE [t EXCEPT !.pc = enter_pc, !.phase = "versions"]

\* _is_product_available once _get_with_cache has returned r (lines 165-170)
after_probe(t, r) == [t EXCEPT !.pc = "memo_set", !.avail = (r # None)]

enter_probe(t) ==
    IF enter_pc = "raise" THEN after_probe(t, None)
    ELSE [t EXCEPT !.pc = enter_pc, !.phase = "probe"]

\* _get_with_cache returns r to its caller (None: it raised)
returned(i, t, r) ==
    CASE t.phase = "probe" -> after_probe(t, r)
      [] t.phase = "versions" -> after_versions(i, t, r)
      [] t.phase = "recommend" -> after_recommend(i, t, r)

\* lines 166 and 169 storing the flag under every product of the catalog
memo_put_all(memo, product, avail) ==
    [p \in {_get_product_name(d.name) : d \in DepPool} |-> avail]

\* lines 166 and 169: available_products_cache[product_name] = avail
memo_put(memo, product, avail) ==
    [p \in DOMAIN memo \cup {product} |-> IF p = product THEN avail ELSE memo[p]]

\* get_eol_info letting an unavailable product reach check_dependency as an
\* exception
after_lookup_raising(i, t, avail) ==
    IF avail THEN enter_versions(i, t)
    ELSE Done(error_result(all_dependencies[i], "product not available"))

\* get_eol_info after line 197 (160-161 and 197-199)
after_lookup(i, t, avail) ==
    IF avail THEN enter_versions(i, t)
    ELSE Done(unknown_result(all_dependencies[i]))

Running == {j \in DOMAIN task : task[j].pc \notin {"queued", "done", "yielded"}}

\* RequestPool.__init__ building an executor one thread short
RequestPool_one_thread_short ==
    (IF max_workers = None THEN cpu_count * 2 ELSE max_workers[1]) - 1

\* RequestPool.__init__, lines 22-26: the size asked of the executor
RequestPool_max_workers ==
    IF max_workers = None THEN cpu_count * 2 ELSE max_workers[1]

\* core.py line 151, RequestPool.__init__: ThreadPoolExecutor raises
\* ValueError unless max_workers is greater than 0, and check_project with it
CreatePool ==
    /\ mainpc = "pool"
    /\ mainpc' = IF RequestPool_max_workers <= 0 THEN "raised" ELSE "submit"
    /\ UNCHANGED <<configVars, now, files, available_products_cache, all_dependencies,
                   task, dep_results, results, call, written, unit>>

\* lines 242-245: every dependency is submitted to the pool
Submit ==
    /\ mainpc = "submit"
    /\ mainpc' = "collect"
    /\ UNCHANGED <<configVars, now, files, available_products_cache, all_dependencies,
                   task, dep_results, results, call, written, unit>>

\* a free thread takes the oldest queued task and runs it to the test of
\* line 160
Start(i) ==
    /\ mainpc \notin {"pool", "raised", "submit"}
    /\ task[i].pc = "queued"
    /\ \A j \in 1..(i - 1) : task[j].pc # "queued"
    /\ Cardinality(Running) < RequestPool_max_workers
    /\ task' = [task EXCEPT ![i] =
                  IF Product(i) \in DOMAIN available_products_cache
                  THEN after_lookup(i, task[i], available_products_cache[Product(i)])
                  ELSE enter_probe(task[i])]
    /\ UNCHANGED <<configVars, now, files, available_products_cache, all_dependencies,
                   dep_results, results, mainpc, call, written, unit>>

\* line 106: self.cache.get(cache_key), and lines 107-116
CacheRead(i) ==
    /\ task[i].pc = "cache_get"
    /\ LET cached_data == Cache_get(files, cache_key(Product(i)), now)
       IN  task' = [task EXCEPT ![i] =
                      IF cached_data # None /\ cached_data[1] # <<>>
                      THEN returned(i, task[i], cached_data)
                      ELSE IF offline_mode THEN returned(i, task[i], None)
                      ELSE [task[i] EXCEPT !.pc = "fetch"]]
    /\ UNCHANGED <<configVars, now, files, available_products_cache, all_dependencies,
                   dep_results, results, mainpc, call, written, unit>>

\* line 119: self._fetch_from_api(endpoint)
Fetch(i) ==
    /\ task[i].pc = "fetch"
    /\ task' = [task EXCEPT ![i] =
                  IF _fetch_from_api(Product(i)) = None
                  THEN returned(i, task[i], None)
                  ELSE [task[i] EXCEPT !.pc = "cache_open"]]
    /\ UNCHANGED <<configVars, now, files, available_products_cache, all_dependencies,
                   dep_results, results, mainpc, call, written, unit>>

\* line 122, Cache.set: the file is opened for writing, or cannot be
CacheOpen(i, outcome) ==
    /\ task[i].pc = "cache_open"
    /\ IF outcome = "ok"
       THEN /\ files' = Cache_set_open(files, cache_key(Product(i)))
            /\ task' = [task EXCEPT ![i].pc = "cache_dump"]
       ELSE /\ files' = files
            /\ task' = [task EXCEPT ![i] =
                          returned(i, task[i], _fetch_from_api(Product(i)))]
    /\ UNCHANGED <<configVars, now, available_products_cache, all_dependencies,
                   dep_results, results, mainpc, call, written, unit>>

\* line 122, Cache.set: the entry is written and the file closed, or the
\* write fails; _get_with_cache returns the data either way
CacheDump(i, outcome) ==
    /\ task[i].pc = "cache_dump"
    /\ files' = IF outcome = "ok"
                THEN Cache_set_dump(files, cache_key(Product(i)),
                                    _fetch_from_api(Product(i))[1], cache_ttl, now)
                ELSE files
    /\ task' = [task EXCEPT ![i] = returned(i, task[i], _fetch_from_api(Product(i)))]
    /\ UNCHANGED <<configVars, now, available_products_cache, all_dependencies,
                   dep_results, results, mainpc, call, written, unit>>

\* lines 166-167 and 169-170, and get_eol_info from line 197 on
MemoSet(i) ==
    /\ task[i].pc = "memo_set"
    /\ available_products_cache' =
           memo_put(available_products_cache, Product(i), task[i].avail)
    /\ task' = [task EXCEPT ![i] = after_lookup(i, task[i], task[i].avail)]
    /\ UNCHANGED <<configVars, now, files, all_dependencies,
                   dep_results, results, mainpc, call, written, unit>>

\* lines 249-251: as_completed yields a finished future
Collect(i) ==
    /\ mainpc = "collect"
    /\ task[i].pc = "done"
    /\ dep_results' = Append(dep_results, task[i].out[1])
    /\ task' = [task EXCEPT ![i].pc = "yielded"]
    /\ UNCHANGED <<configVars, now, files, available_products_cache, all_dependencies,
                   results, mainpc, call, written, unit>>

\* the loop of lines 249-256 ends after the first future
first_completed == Len(dep_results) >= 1 \/ all_dependencies = <<>>

\* the loop of lines 249-256 never ends: as_completed waits for one more
\* future than were submitted
one_more_completed == Len(dep_results) > Len(all_dependencies)

\* the loop of lines 249-256 ends when every future has been yielded
all_completed == Len(dep_results) = Len(all_dependencies)

\* lines 259-261 counting a result under "unknown" only when it has no error
RECURSIVE summarize_skipping_errors(_, _)
summarize_skipping_errors(pairs, summary) ==
    IF pairs = <<>> THEN summary
    ELSE summarize_skipping_errors(
             Tail(pairs),
             IF pairs[1][1].status = "ERROR" THEN summary
             ELSE [summary EXCEPT ![pairs[1][2]] = @ + 1])

\* lines 259-261: results["summary"][summary_key] += 1 for each pair
RECURSIVE summarize(_, _)
summarize(pairs, summary) ==
    IF pairs = <<>> THEN summary
    ELSE summarize(Tail(pairs), [summary EXCEPT ![pairs[1][2]] = @ + 1])

\* lines 258-267
Finalize ==
    /\ mainpc = "collect"
    /\ all_completed
    /\ results' = [dependencies |-> [j \in 1..Len(dep_results) |-> dep_results[j][1]],
                   summary |-> summarize(dep_results, results.summary)]
    /\ mainpc' = "done"
    /\ UNCHANGED <<configVars, now, files, available_products_cache, all_dependencies,
                   task, dep_results, call, written, unit>>

Next ==
    \/ CreatePool
    \/ Submit
    \/ \E i \in DOMAIN task : Start(i)
    \/ \E i \in DOMAIN task : CacheRead(i)
    \/ \E i \in DOMAIN task : Fetch(i)
    \/ \E i \in DOMAIN task, outcome \in WriteOutcomes : CacheOpen(i, outcome)
    \/ \E i \in DOMAIN task, outcome \in WriteOutcomes : CacheDump(i, outcome)
    \/ \E i \in DOMAIN task : MemoSet(i)
    \/ \E i \in DOMAIN task : Collect(i)
    \/ Finalize

Spec == Init /\ [][Next]_vars

----------------------------------------------------------------------------
(* What the run must deliver, stated against the resolution of one        *)
(* dependency on its own: from the cache as it was found, the catalog and *)
(* the configuration, with no other dependency in the list.               *)

\* _get_with_cache when nothing else runs
fetched_alone(product) ==
    LET cached_data == Cache_get(found, cache_key(product), now)
    IN  IF ~force_update /\ cached_data # None /\ cached_data[1] # <<>>
        THEN cached_data
        ELSE IF offline_mode THEN None
        ELSE _fetch_from_api(product)

\* the pair check_dependency returns when dep is the only dependency
alone(dep) ==
    LET r == fetched_alone(_get_product_name(dep.name))
    IN  IF r = None THEN unknown_result(dep)
        ELSE check_dependency(dep, find_eol_info(r[1], dep.version), r, today, threshold_days)

\* the classification of dep raises: its cycle's eol is no date string
raises_alone(dep) ==
    LET r == fetched_alone(_get_product_name(dep.name))
        eol_info == IF r = None THEN None ELSE find_eol_info(r[1], dep.version)
    IN  ~no_eol_info(eol_info) /\ ~strptime_ok(eol_info[1].eol)

Count(seq, x) == Cardinality({j \in DOMAIN seq : seq[j] = x})

SameItems(a, b) ==
    /\ Len(a) = Len(b)
    /\ \A j \in DOMAIN a : Count(a, a[j]) = Count(b, a[j])

Finished == {i \in DOMAIN task : task[i].out # None}

\* C3: a dependency whose classification raises gets status ERROR with the
\* error's description, and it alone: in every interleaving each finished
\* dependency has the resolution it has when checked on its own, and the run
\* returns one resolution for every dependency.
C3_ErrorIsLocal ==
    /\ \A i \in Finished :
          /\ task[i].out[1] = alone(all_dependencies[i])
          /\ raises_alone(all_dependencies[i]) =>
                /\ task[i].out[1][1].status = "ERROR"
                /\ "error" \in DOMAIN task[i].out[1][1]
                /\ task[i].out[1][1].error # ""
          /\ task[i].out[1][1].status = "ERROR" => raises_alone(all_dependencies[i])
    /\ mainpc = "done" =>
          SameItems(results.dependencies,
                    [i \in DOMAIN all_dependencies |-> alone(all_dependencies[i])[1]])

\* C3 witness: two workers, a finished run where one dependency is ERROR and
\* the other one has a dated resolution.
C3_Witness ==
    /\ mainpc = "done"
    /\ max_workers = Some(2)
    /\ \E j, k \in DOMAIN results.dependencies :
          /\ results.dependencies[j].status = "ERROR"
          /\ results.dependencies[k].status \in {"CRITICAL", "WARNING", "OK"}

StatusCount(status) ==
    Cardinality({j \in DOMAIN results.dependencies :
                    results.dependencies[j].status = status})

\* C4: when the run has returned, the four counters add up to the number of
\* dependencies, critical, warning and ok count the resolutions of that
\* status, and unknown counts the UNKNOWN and the ERROR resolutions; before
\* that no counter has moved.
C4_SummaryCounts ==
    /\ mainpc = "done" =>
          /\ results.summary.critical + results.summary.warning
                + results.summary.ok + results.summary.unknown = Len(all_dependencies)
          /\ Len(results.dependencies) = Len(all_dependencies)
          /\ results.summary.critical = StatusCount("CRITICAL")
          /\ results.summary.warning = StatusCount("WARNING")
          /\ results.summary.ok = StatusCount("OK")
          /\ results.summary.unknown = StatusCount("UNKNOWN") + StatusCount("ERROR")
    /\ mainpc # "done" => results = NoResults

\* C4 witness: a finished run with an ERROR and an UNKNOWN resolution, both
\* counted under unknown.
C4_Witness ==
    /\ mainpc = "done"
    /\ StatusCount("ERROR") = 1
    /\ StatusCount("UNKNOWN") = 1
    /\ results.summary.unknown = 2

\* the summary of the dependencies resolved one at a time, in the order of
\* the list; neither max_workers nor the completion order enters it
expected_summary ==
    summarize([i \in DOMAIN all_dependencies |-> alone(all_dependencies[i])],
              NoResults.summary)

\* C5: the summary of a finished run is the one fixed by the dependency list,
\* the catalog, the cache as found and the clock, whatever the number of
\* workers and the order of completion, and it is computed only when every
\* pair has been collected.
C5_SummaryIsOrderFree ==
    /\ mainpc = "done" =>
          /\ results.summary = expected_summary
          /\ Len(dep_results) = Len(all_dependencies)
          /\ \A i \in DOMAIN task : task[i].pc = "yielded"
    /\ mainpc # "done" => results.summary = NoResults.summary

\* C5 witness: two workers, and the dependency submitted second was
\* collected first and falls into another bucket than the first.
C5_Witness ==
    /\ mainpc = "done"
    /\ max_workers = Some(2)
    /\ Len(all_dependencies) = 2
    /\ all_dependencies[1] # all_dependencies[2]
    /\ dep_results[1] = alone(all_dependencies[2])
    /\ dep_results[1][2] # dep_results[2][2]

\* C6: offline, a dependency whose product has no valid cache entry is
\* resolved to ERROR with an error that tells of the missing cached data.
C6_OfflineMissIsError ==
    \A i \in Finished :
        (offline_mode /\ Cache_get(found, cache_key(Product(i)), now) = None)
            => /\ task[i].out[1][1].status = "ERROR"
               /\ "error" \in DOMAIN task[i].out[1][1]

----------------------------------------------------------------------------
(* The client on its own: calls of _get_with_cache one after the other,   *)
(* the clock moving between them.  call records what a call was given and *)
(* what it did.                                                           *)

Endpoints == {s_django, s_nodejs, s_left_pad, s_vue}
ClientTtls == {1, DEFAULT_CACHE_TTL}

\* what a call of _get_with_cache did: its return value (None when it
\* raised), the exception, whether the cache was read and the network asked,
\* and the cache directory it leaves
Outcome(ret, raised, read, fetched, d) ==
    [ret |-> ret, raised |-> raised, read |-> read, fetched |-> fetched, files |-> d]

\* lines 118-124: the network is asked, the answer cached and returned
fetch_and_cache(endpoint, read, outcome) ==
    LET data == _fetch_from_api(endpoint)
    IN  IF data = None
        THEN Outcome(None, "HTTPError", read, TRUE, files)
        ELSE Outcome(data, "", read, TRUE,
                     Cache_set(files, cache_key(endpoint), data[1], cache_ttl, now, outcome))

\* lines 112-116 and 118-124: after the cache was of no use
offline_or_fetch(endpoint, read, outcome) ==
    IF offline_mode THEN Outcome(None, "ValueError", read, FALSE, files)
    ELSE fetch_and_cache(endpoint, read, outcome)

\* _get_with_cache reading the cache whatever force_update says
_get_with_cache_cache_first(endpoint, outcome) ==
    LET cached_data == Cache_get(files, cache_key(endpoint), now)
    IN  IF cached_data # None /\ cached_data[1] # <<>>
        THEN Outcome(cached_data, "", TRUE, FALSE, files)
        ELSE offline_or_fetch(endpoint, TRUE, outcome)

\* _get_with_cache letting a failed cache write reach its caller
_get_with_cache_strict_write(endpoint, outcome) ==
    LET r == offline_or_fetch(endpoint, FALSE, outcome)
    IN  IF r.fetched /\ r.raised = "" /\ outcome # "ok"
        THEN Outcome(None, "OSError", FALSE, TRUE, r.files)
        ELSE r

\* lines 83-124
_get_with_cache(endpoint, outcome) ==
    IF ~force_update
    THEN LET cached_data == Cache_get(files, cache_key(endpoint), now)
         IN  IF cached_data # None /\ cached_data[1] # <<>>
             THEN Outcome(cached_data, "", TRUE, FALSE, files)
             ELSE offline_or_fetch(endpoint, TRUE, outcome)
    ELSE offline_or_fetch(endpoint, FALSE, outcome)

\* the cache directories a client may find: those of a run, and files whose
\* JSON lacks a key
ClientCaches ==
    FoundCaches \cup
    {Put(Put(<<>>, FileOf(s_django), [json |-> [value |-> old_django]]),
         FileOf(s_nodejs), [json |-> [expires_at |-> 101]])}

InitClient ==
    /\ threshold_days = 90
    /\ offline_mode \in BOOLEAN
    /\ force_update \in BOOLEAN
    /\ cache_ttl \in ClientTtls
    /\ max_workers = None
    /\ cpu_count = 1
    /\ today = Date(2024, 1, 1)
    /\ now = 100
    /\ files \in ClientCaches
    /\ found = files
    /\ available_products_cache = <<>>
    /\ all_dependencies = <<>>
    /\ task = <<>>
    /\ dep_results = <<>>
    /\ results = NoResults
    /\ mainpc = "idle"
    /\ call = NoCall
    /\ written = <<>>
    /\ unit = <<>>

GetWithCache(endpoint, outcome) ==
    /\ call.n < MaxCalls
    /\ LET r == _get_with_cache(endpoint, outcome)
       IN  /\ files' = r.files
           /\ call' = [op |-> "_get_with_cache", n |-> call.n + 1,
                       endpoint |-> endpoint, outcome |-> outcome,
                       at |-> now, before |-> files,
                       ret |-> r.ret, raised |-> r.raised,
                       read |-> r.read, fetched |-> r.fetched]
    /\ UNCHANGED <<configVars, runVars, now, written, unit>>

\* time.time() moves on between two calls
ClientTick ==
    /\ now < 100 + MaxClock
    /\ now' = now + 1
    /\ UNCHANGED <<configVars, runVars, files, call, written, unit>>

NextClient ==
    \/ \E endpoint \in Endpoints, outcome \in SetOutcomes : GetWithCache(endpoint, outcome)
    \/ ClientTick

SpecClient == InitClient /\ [][NextClient]_vars

Called == call.op = "_get_with_cache"

\* the cache entry of the call's product before the call, as a read sees it
CachedBefore == Cache_get(call.before, cache_key(call.endpoint), call.at)

FileOfCall == FileOf(call.endpoint)

\* the cache directory is as the call found it
Untouched == files = call.before

C12_HitIsReturned ==
    (Called /\ ~force_update /\ CachedBefore # None) =>
        /\ call.ret = CachedBefore
        /\ call.raised = ""
        /\ ~call.fetched
        /\ Untouched

\* the tasks that are asking the network or storing its answer
Fetching == {i \in DOMAIN task : task[i].pc \in {"fetch", "cache_open", "cache_dump"}}

\* C13: with offline_mode set no task of a run ever asks the network,
\* whatever force_update, the workers and the cache are: the cache directory
\* stays as it was found, and a dependency has a matched cycle only if the
\* cache held an unexpired entry for its product.
C13_OfflineNeverFetches ==
    offline_mode =>
        /\ Fetching = {}
        /\ files = found
        /\ \A i \in Finished :
              task[i].out[1][1].status # "UNKNOWN" =>
                  /\ ~force_update
                  /\ Cache_get(found, cache_key(Product(i)), now) # None

\* C13 witness: an offline run has finished, one dependency resolved from
\* the cache and another one without a cache entry.
C13_Witness ==
    /\ offline_mode
    /\ mainpc = "done"
    /\ \E j, k \in DOMAIN results.dependencies :
          /\ results.dependencies[j].status \in {"CRITICAL", "WARNING", "OK"}
          /\ results.dependencies[k].status = "UNKNOWN"

\* the tasks that found no flag for their product and went on to probe it
Probing(product) ==
    {i \in DOMAIN task : Product(i) = product /\ task[i].phase = "probe"}

\* C14: for every product at most one task of a run probes its
\* availability; the others use the recorded flag.
C14_OneProbePerProduct ==
    \A i \in DOMAIN task : Cardinality(Probing(Product(i))) <= 1

\* the file of the call's product was there and could not be used: torn,
\* or JSON without its keys
BadFileBefore ==
    /\ FileOfCall \in DOMAIN call.before
    /\ ~WellFormed(call.before[FileOfCall])

\* C15: no failure of the cache reaches the caller of the client.  A read of
\* a missing, torn or malformed file is a miss and nothing else; a failed
\* write changes nothing for the caller, who gets the fetched data.
C15_CacheFailuresSwallowed ==
    Called =>
        /\ call.raised \in {"", "ValueError", "HTTPError"}
        /\ (call.read /\ (BadFileBefore \/ FileOfCall \notin DOMAIN call.before)) =>
              /\ CachedBefore = None
              /\ offline_mode => (call.raised = "ValueError" /\ ~call.fetched)
              /\ ~offline_mode => call.fetched
        /\ (call.fetched /\ _fetch_from_api(call.endpoint) # None) =>
              /\ call.raised = ""
              /\ call.ret = _fetch_from_api(call.endpoint)
        /\ (call.fetched /\ call.outcome = "open_failed") => Untouched

\* C15 witness: a call found a file it could not use, fetched, failed to
\* write the answer and returned it all the same.
C15_Witness ==
    /\ Called
    /\ call.read
    /\ BadFileBefore
    /\ call.outcome # "ok"
    /\ call.ret # None
    /\ call.ret = _fetch_from_api(call.endpoint)

\* get_eol_info returns None for dep: its product cannot be fetched
no_product(dep) == fetched_alone(_get_product_name(dep.name)) = None

\* get_eol_info returns None for dep: no cycle of its product matches
no_match(dep) ==
    LET r == fetched_alone(_get_product_name(dep.name))
    IN  r # None /\ find_eol_info(r[1], dep.version) = None

\* C16: a dependency whose product cannot be found or fetched, or none of
\* whose cycles matches, is UNKNOWN with no date and no error: the failure
\* never reaches the classification as an exception.
C16_LookupFailureIsUnknown ==
    \A i \in Finished :
        (no_product(all_dependencies[i]) \/ no_match(all_dependencies[i])) =>
            /\ task[i].out[1] = unknown_result(all_dependencies[i])
            /\ task[i].out[1][1].status = "UNKNOWN"
            /\ "error" \notin DOMAIN task[i].out[1][1]

\* C16 witness: a finished run with a dependency whose product the catalog
\* does not have and one whose version matches no cycle, both UNKNOWN.
C16_Witness ==
    /\ mainpc = "done"
    /\ ~offline_mode
    /\ \E i, j \in Finished :
          /\ no_product(all_dependencies[i])
          /\ no_match(all_dependencies[j])
          /\ task[i].out[1][1].status = "UNKNOWN"
          /\ task[j].out[1][1].status = "UNKNOWN"

----------------------------------------------------------------------------
(* The recommendation, checked on check_dependency applied to bounded     *)
(* catalogs.                                                              *)

Checked == unit # <<>> /\ unit.fn = "check_dependency"

\* every eol of the catalog is a boolean or a date, as a release cycle's is
EolTyped(versions) ==
    \A j \in DOMAIN versions :
        "eol" \in DOMAIN versions[j] => "text" \notin DOMAIN versions[j].eol

\* the cycle is supported today: eol false, or a date after today
Supported(v, today_) ==
    /\ "eol" \in DOMAIN v
    /\ \/ v.eol = EolBool(FALSE)
       \/ /\ "date" \in DOMAIN v.eol
          /\ DaysFrom2024(v.eol.date) > DaysFrom2024(today_)

SupportedAt(versions, today_) ==
    {j \in DOMAIN versions : Supported(versions[j], today_)}

latestVersion(v) == IF "latest" \in DOMAIN v THEN Some(v.latest) ELSE None

LeadingInt(version) ==
    IF parse_version(version) = <<>> THEN None
    ELSE Some(parse_version(version)[1])

\* C18: has_breaking_changes is true exactly when a version is recommended
\* whose leading integer component differs from that of the dependency's
\* version, be it the latest of a supported cycle or of the matched cycle.
C18_BreakingChange ==
    (Checked /\ EolTyped(unit.versions)
        /\ "has_breaking_changes" \in DOMAIN unit.out[1]) =>
        LET r == unit.out[1]
        IN  r.has_breaking_changes =
                /\ r.recommended_version # None
                /\ LeadingInt(r.recommended_version[1]) # None
                /\ LeadingInt(unit.dep.version) # None
                /\ LeadingInt(r.recommended_version[1]) # LeadingInt(unit.dep.version)

----------------------------------------------------------------------------
\* the size the pool is to have: the configured one or twice the hardware
\* threads, and 1 at least
FlooredSize ==
    LET asked == IF max_workers = None THEN 2 * cpu_count ELSE max_workers[1]
    IN  IF asked < 1 THEN 1 ELSE asked

\* C19: whatever max_workers is configured, 0 and negative values included,
\* the run gets a pool of the configured size, of twice the hardware threads
\* when none is configured, and of size 1 at least, and never more tasks
\* are executing than that.
C19_PoolSizeFloor ==
    mainpc # "pool" =>
        /\ mainpc # "raised"
        /\ RequestPool_max_workers = FlooredSize
        /\ Cardinality(Running) <= FlooredSize

----------------------------------------------------------------------------
(* Termination.  The operating system keeps running the main thread and   *)
(* the threads of the pool, and every fetch and every cache operation     *)
(* returns: a step that can be taken is taken in the end.                 *)

FairDeps ==
    {Dependency(s_django, ver_3_2_1), Dependency(s_Django, ver_4_2),
     Dependency(s_left_pad, ver_3)}

\* the runs of Init with one threshold, pools of one and two threads and
\* the first two of the cache directories
InitFair ==
    /\ threshold_days = 90
    /\ offline_mode \in BOOLEAN
    /\ force_update \in BOOLEAN
    /\ cache_ttl = DEFAULT_CACHE_TTL
    /\ max_workers \in {Some(1), Some(2)}
    /\ cpu_count \in CpuCounts
    /\ today \in Todays
    /\ now = 100
    /\ files \in {<<>>, Put(<<>>, FileOf(s_django), Entry(old_django, 101))}
    /\ found = files
    /\ available_products_cache = <<>>
    /\ all_dependencies \in SeqsUpTo(FairDeps, MaxDeps)
    /\ task = [i \in 1..Len(all_dependencies) |-> Queued]
    /\ dep_results = <<>>
    /\ results = NoResults
    /\ mainpc = "pool"
    /\ call = NoCall
    /\ written = <<>>
    /\ unit = <<>>

\* ENABLED <<Next>>_vars as a state predicate: the guards of the actions of
\* Next, each of which moves the position of the main thread or of a task
CanStep ==
    \/ mainpc \in {"pool", "submit"}
    \/ \E i \in DOMAIN task :
          /\ mainpc \notin {"pool", "raised", "submit"}
          /\ task[i].pc = "queued"
          /\ \A j \in 1..(i - 1) : task[j].pc # "queued"
          /\ Cardinality(Running) < RequestPool_max_workers
    \/ \E i \in DOMAIN task :
          task[i].pc \in {"cache_get", "fetch", "cache_open", "cache_dump", "memo_set"}
    \/ mainpc = "collect" /\ \E i \in DOMAIN task : task[i].pc = "done"
    \/ mainpc = "collect" /\ all_completed

\* WF_vars(Next) with its ENABLED written as CanStep: a run that can take a
\* step does not stop for ever
Fairness == []<>(~CanStep) \/ []<><<Next>>_vars

FairSpec == InitFair /\ [][Next]_vars /\ Fairness

\* C20: with a pool of one thread or more the run returns in the end, with
\* one resolution for every dependency of the list, the empty list included.
C20_RunReturns ==
    (RequestPool_max_workers >= 1) =>
        <>(/\ mainpc = "done"
           /\ Len(results.dependencies) = Len(all_dependencies)
           /\ \A i \in DOMAIN task : task[i].pc = "yielded")

\* C20 witness: a run of two dependencies on a pool of one thread has
\* returned both resolutions.
C20_Witness ==
    /\ mainpc = "done"
    /\ max_workers = Some(1)
    /\ Len(all_dependencies) = 2
    /\ Len(results.dependencies) = 2

----------------------------------------------------------------------------
(* The product id of a package name, checked under SpecUnit *)

\* the alias table read as a relation: the ids the table gives for a name
AliasFor(name) == {product_mapping(k) : k \in {a \in product_mapping_keys : a = name}}

\* C21: _get_product_name returns the table's entry for the lowercased name
\* if there is one, else the table's entry for the lowercased name with "_"
\* replaced by "-" if there is one, else the lowercased name itself; the call
\* leaves the cache directory, the availability memo and the clock alone.
C21_ProductIdIsPure ==
    [][(unit.fn = "args" /\ unit'.fn = "_get_product_name") =>
         LET l == lower(unit.name)
             h == replace(l, "_", "-")
         IN  /\ unit'.package_name = unit.name
             /\ AliasFor(l) # {} => AliasFor(l) = {unit'.out}
             /\ (AliasFor(l) = {} /\ AliasFor(h) # {}) => AliasFor(h) = {unit'.out}
             /\ (AliasFor(l) = {} /\ AliasFor(h) = {}) => unit'.out = l
             /\ UNCHANGED <<files, written, available_products_cache, call, now>>]_vars

\* C21 witness: a name found only after lowercasing and replacing "_"
C21_Witness ==
    /\ unit.fn = "_get_product_name"
    /\ unit.package_name = s_Spring_Boot
    /\ unit.out = s_spring_boot

----------------------------------------------------------------------------
(* Cache.get by one thread (or process) while another is inside Cache.set  *)
(* on the same cache directory.  call is the get in progress, written the  *)
(* set in progress; files is the directory both see.                       *)

RaceEntries == {Entry(v, e) : v \in CacheValues, e \in {1, 2 * MaxClock}}

InitRace ==
    /\ NoRun
    /\ now = 0
    /\ \E k \in CacheKeys, c \in RaceEntries : files = Put(<<>>, _get_cache_path(k), c)
    /\ found = files
    /\ \E k \in CacheKeys :
          call = [op |-> "get", pc |-> "exists", key |-> k]
    /\ \E k \in CacheKeys, v \in CacheValues, ttl \in Ttls :
          written = [op |-> "set", pc |-> "begin", key |-> k, value |-> v, ttl |-> ttl]
    /\ unit = <<>>

\* Cache.set lines 88-93: cache_data with expires_at = time.time() + ttl
SetBegin ==
    /\ written.pc = "begin"
    /\ written' = [written EXCEPT !.pc = "open"] @@ [at |-> now]
    /\ UNCHANGED <<configVars, runVars, now, files, call, unit>>

\* Cache.set line 96: open(cache_path, "w") truncates the file
SetOpen ==
    /\ written.pc = "open"
    /\ files' = Cache_set_open(files, written.key)
    /\ written' = [written EXCEPT !.pc = "dump"]
    /\ UNCHANGED <<configVars, runVars, now, call, unit>>

\* Cache.set lines 97-98: json.dump and the close that flushes the text
SetDump ==
    /\ written.pc = "dump"
    /\ files' = Cache_set_dump(files, written.key, written.value, written.ttl, written.at)
    /\ written' = [written EXCEPT !.pc = "done"]
    /\ UNCHANGED <<configVars, runVars, now, call, unit>>

\* Cache.get lines 58-62: os.path.exists(cache_path)
GetExists ==
    /\ call.pc = "exists"
    /\ call' = IF _get_cache_path(call.key) \in DOMAIN files
               THEN [call EXCEPT !.pc = "load"]
               ELSE [call EXCEPT !.pc = "done"] @@ [at |-> now, seen |-> None, ret |-> None]
    /\ UNCHANGED <<configVars, runVars, now, files, written, unit>>

\* Cache.get lines 65-66: open and json.load read what the file holds now
GetLoad ==
    /\ call.pc = "load"
    /\ call' = [call EXCEPT !.pc = "check"] @@ [seen |-> Stored(files, call.key)]
    /\ UNCHANGED <<configVars, runVars, now, files, written, unit>>

\* Cache.get lines 66-79: the decode error or the expiry test and the return
GetCheck ==
    /\ call.pc = "check"
    /\ call' = [call EXCEPT !.pc = "done"] @@
               [at |-> now,
                ret |-> IF call.seen = None THEN None
                        ELSE Cache_get(Put(<<>>, _get_cache_path(call.key), call.seen[1]),
                                       call.key, now)]
    /\ UNCHANGED <<configVars, runVars, now, files, written, unit>>

NextRace ==
    \/ SetBegin
    \/ SetOpen
    \/ SetDump
    \/ GetExists
    \/ GetLoad
    \/ GetCheck
    \/ Tick

SpecRace == InitRace /\ [][NextRace]_vars

\* the get and the set are on the same file, which held a complete entry
\* that is unexpired when the get tests it, and the entry being written is
\* unexpired then as well
RacedOnLiveEntry ==
    /\ call.pc = "done"
    /\ written.pc # "begin"
    /\ _get_cache_path(call.key) = _get_cache_path(written.key)
    /\ _get_cache_path(call.key) \in DOMAIN found
    /\ found[_get_cache_path(call.key)].json.expires_at >= call.at
    /\ written.at + written.ttl >= call.at

\* C22: a get racing with a set on a key that holds an unexpired complete
\* value returns the old value or the new value in full, whatever the
\* interleaving of the open, the write and the close with the read.
C22_RaceReturnsOldOrNew ==
    RacedOnLiveEntry =>
        call.ret \in {Some(found[_get_cache_path(call.key)].json.value),
                      Some(written.value)}

----------------------------------------------------------------------------
(* The run when the network may fail: a request of _fetch_from_api can     *)
(* raise (time-out, connection error, HTTP error) whatever the catalog     *)
(* holds, and a later request for the same product can succeed.            *)

\* line 119: requests.get or raise_for_status raises, and _get_with_cache
\* with it
FetchFails(i) ==
    /\ task[i].pc = "fetch"
    /\ task' = [task EXCEPT ![i] = returned(i, task[i], None)]
    /\ UNCHANGED <<configVars, now, files, available_products_cache, all_dependencies,
                   dep_results, results, mainpc, call, written, unit>>

NextFlaky ==
    \/ Next
    \/ \E i \in DOMAIN task : FetchFails(i)

SpecFlaky == InitFair /\ [][NextFlaky]_vars

\* C23: once an availability value has been recorded for a product id it
\* never changes for the rest of the run, whatever the interleaving of the
\* threads and whichever requests fail.
C23_MemoWriteOnce ==
    [][\A p \in DOMAIN available_products_cache :
          /\ p \in DOMAIN available_products_cache'
          /\ available_products_cache'[p] = available_products_cache[p]]_vars

----------------------------------------------------------------------------
(* The run when a request may never return: requests.get is called with   *)
(* no timeout, so the thread that issued it waits for ever.               *)

\* line 79: requests.get(url) blocks; at most one request of the run does
FetchHangs(i) ==
    /\ task[i].pc = "fetch"
    /\ \A j \in DOMAIN task : task[j].pc # "stuck"
    /\ task' = [task EXCEPT ![i].pc = "stuck"]
    /\ UNCHANGED <<configVars, now, files, available_products_cache, all_dependencies,
                   dep_results, results, mainpc, call, written, unit>>

NextStuck ==
    \/ Next
    \/ \E i \in DOMAIN task : FetchHangs(i)

\* a run that can take a step does not stop for ever: the main thread
\* builds the pool and submits, and then whichever thread can move does
\* (CanStep is the enabledness of NextStuck too: a request that can hang can
\* also return); a thread in requests.get can take no step
FairnessStuck ==
    /\ WF_vars(CreatePool)
    /\ WF_vars(Submit)
    /\ []<>(~CanStep) \/ []<><<NextStuck>>_vars

SpecStuck == InitFair /\ [][NextStuck]_vars /\ FairnessStuck

\* the pool size the configuration asks for
ConfiguredSize == IF max_workers = None THEN 2 * cpu_count ELSE max_workers[1]

Stuck == \E i \in DOMAIN task : task[i].pc = "stuck"
OthersResolved == \A j \in DOMAIN task : task[j].pc \in {"stuck", "done", "yielded"}

\* C24 as stated: once a request hangs, every other dependency of the list
\* is still resolved in the end, for every pool size, and the run never
\* returns.
C24_StuckCallStallsOneWorker ==
    /\ Stuck ~> OthersResolved
    /\ [](Stuck => mainpc # "done")

\* C24 amended: once a request hangs in a pool of two threads or more, every
\* other dependency of the list is still resolved in the end; in a pool of
\* one thread the dependencies queued behind it are never started; in both
\* cases the run never returns.
C24_StuckCallStallsOneThread ==
    /\ (Stuck /\ ConfiguredSize >= 2) ~> OthersResolved
    /\ [](Stuck /\ ConfiguredSize = 1 =>
             \A j \in DOMAIN task : task[j].pc \in {"stuck", "queued", "done", "yielded"})
    /\ [](Stuck => mainpc # "done")

\* C24 witness: of two dependencies on a pool of two threads one is stuck
\* in its request and the other has been resolved and collected.
C24_Witness ==
    /\ ConfiguredSize = 2
    /\ Len(all_dependencies) = 2
    /\ task[1].pc = "stuck"
    /\ task[2].pc = "yielded"
    /\ mainpc = "collect"

----------------------------------------------------------------------------
(* A miss followed by a later call for the same product, under SpecClient *)

\* the step is a call of _get_with_cache
CallStep == call'.n = call.n + 1

\* the call recorded in c found no valid entry, asked the network with
\* success and wrote the answer to the cache
MissFetched(c) ==
    /\ c.op = "_get_with_cache"
    /\ ~force_update /\ ~offline_mode
    /\ Cache_get(c.before, cache_key(c.endpoint), c.at) = None
    /\ _fetch_from_api(c.endpoint) # None
    /\ c.outcome = "ok"

\* C25: with force_update and offline_mode unset and no valid entry in the
\* cache, _get_with_cache asks the network once, stores the answer with
\* expires_at = now + cache_ttl and returns it; the next call for the same
\* product before that time, nothing having cleared the cache, asks no
\* network and returns the same data.
C25_MissFetchesThenHits ==
    [][CallStep =>
         /\ MissFetched(call') =>
               /\ call'.fetched
               /\ call'.ret = _fetch_from_api(call'.endpoint)
               /\ Stored(files', cache_key(call'.endpoint)) =
                      Some(Entry(call'.ret[1], call'.at + cache_ttl))
         /\ (MissFetched(call) /\ call'.endpoint = call.endpoint
                /\ call'.at < call.at + cache_ttl) =>
               /\ ~call'.fetched
               /\ call'.ret = call.ret]_vars

----------------------------------------------------------------------------
(* Keys and files, under SpecCache *)

\* C26: distinct keys never share a file: a set of one key leaves what get
\* returns for every other key as it was.
C26_KeysDoNotCollide ==
    [][(call'.n = call.n + 1 /\ call'.op = "set") =>
         \A k2 \in CacheKeys \ {call'.key} :
            Cache_get(files', k2, now) = Cache_get(files, k2, now)]_vars

----------------------------------------------------------------------------
(* The order of the resolutions, under Spec *)

\* the resolutions of the tasks in the order of the dependency list
InListOrder == [i \in 1..Len(all_dependencies) |-> task[i].out[1][1]]

\* C27: the list of resolutions the run returns is the same sequence for
\* every completion order of the threads: the resolutions stand in the
\* order of the dependency list.
C27_ResultsInListOrder ==
    mainpc = "done" => results.dependencies = InListOrder

\* C28: Cache.get never modifies the storage: an expired or malformed entry
\* stays where it is and a hit changes neither the value nor expires_at, so
\* the directory is the same before and after every get.
C28_GetLeavesStorage ==
    [][(call'.n = call.n + 1 /\ call'.op = "get") => files' = files]_vars

\* C28 witness: a get has missed on an entry that is expired or malformed,
\* and the entry is still stored.
C28_Witness ==
    /\ call.op = "get"
    /\ call.ret = None
    /\ call.seen # None
    /\ Stored(files, call.key) = call.seen

\* C29: after clear, get misses for every key whose file could be removed;
\* a removal that fails neither stops the removal of the other files nor
\* reaches the caller: exactly the files that could not be removed are left,
\* as they were.
C29_ClearIsBestEffort ==
    [][(call'.n = call.n + 1 /\ call'.op = "clear") =>
         /\ DOMAIN files' = call'.kept
         /\ \A f \in DOMAIN files' : files'[f] = files[f]
         /\ \A k \in CacheKeys :
               _get_cache_path(k) \notin call'.kept => Cache_get(files', k, now) = None]_vars

\* C29 witness: a clear that could not remove one file has removed another.
C29_Witness ==
    /\ call.op = "clear"
    /\ call.kept # {}
    /\ call.listed \ call.kept # {}
    /\ DOMAIN files = call.kept

----------------------------------------------------------------------------
(* The major version of the matched cycle, under SpecUnit *)

\* C30: whenever get_eol_info returns a cycle, the cycle's leading
\* dot-separated component equals that of the normalized version: no
\* version is matched to a cycle of another major version.
C30_SameMajorVersion ==
    (unit.fn = "get_eol_info" /\ unit.out # None) =>
        Leading(unit.out[1].cycle) = Leading(normalize_version(unit.version))

====
